---- MODULE Spec2Model ----
(***************************************************************************)
(* Model of PurchaseProcessor (src/resources/purchase/processor.ts).       *)
(*                                                                         *)
(* The processor runs on a single-threaded event loop: a handler runs      *)
(* without interruption up to its next await, and other handlers may run   *)
(* while it waits.  add() has four awaits (ticket lookup, gateway call,    *)
(* purchase insert, ticket update), so it is four steps; every other       *)
(* public method has a single await and is one step.                       *)
(*                                                                         *)
(* Storage is the two tables the processor touches, Tickets and Purchases. *)
(* The gateway call and the two storage writes of add() may be rejected    *)
(* (network or storage fault); add() has no try/catch, so a rejection      *)
(* leaves add() with that error and runs none of the later steps.          *)
(***************************************************************************)
EXTENDS Integers, Sequences, FiniteSets, TLC

(* ------------------------------ bounds -------------------------------- *)

\* Rows of the Tickets table have ids 1..NumTickets; id NumTickets + 1 is
\* requested by some callers but resolves to no row.
NumTickets == 2

\* Most ticket ids in one add() request.
MaxSelect == 2

\* Latest instant of the clock, where time is let pass.
MaxClock == 3

(* ----------------------------- constants ------------------------------ *)

\* SQL NULL / JavaScript undefined, for ids, dates and quantities (real ones
\* start at 1).
Null == 0

TicketIds == 1..NumTickets

RequestableIds == 1..(NumTickets + 1)

\* Two add() requests, which may overlap in time in every possible way.
Requests == {"A", "B"}

\* Ids the Purchases table can hand out: one insert per request at most.
PurchaseIds == 1..Cardinality(Requests)

\* The rows the Tickets table is seeded with: odd tickets are of type 1 and
\* cost 100, even tickets are of type 2 and cost 250.
SeedType(t) == ((t - 1) % 2) + 1

SeedPrice(t) == IF SeedType(t) = 1 THEN 100 ELSE 250

\* The id lists a request can carry.  The list is only ever used in
\* where("id", "in", ...), which reads it as a set.
Selections == {S \in SUBSET RequestableIds : S # {} /\ Cardinality(S) <= MaxSelect}

VARIABLES
    tickets,        \* Tickets table: id -> row
    purchases,      \* Purchases table: id -> row (only the existing rows)
    nextPurchaseId, \* auto-increment key of the Purchases table
    gateway,        \* number of preferences the payment gateway has created
    clock,          \* the instant new Date() and Date.now() read, in seconds
    env,            \* process.env, as far as the processor reads it
    pc,             \* per add() request: the await it is suspended at
    local,          \* per add() request: its local variables
    outcome,        \* per add() request: how the returned promise settled
    lastCall        \* the last getById/markAsPaid/delete/removeById call and its outcome

vars == <<tickets, purchases, nextPurchaseId, gateway, clock, env, env, pc, local, outcome, lastCall>>

(* ------------------------------ helpers ------------------------------- *)

\* Ascending sequence of the elements of a set of integers.
RECURSIVE SortedSeq(_)
SortedSeq(S) ==
    IF S = {} THEN << >>
    ELSE LET m == CHOOSE x \in S : \A y \in S : x <= y
         IN  <<m>> \o SortedSeq(S \ {m})

(* ---------------------------- getTickets ------------------------------ *)

\* knex("Tickets").select().where("id", "in", ids): the existing rows whose
\* id is in the list, each once, here in primary-key order.
SelectTickets(ids) ==
    LET found == SortedSeq({t \in TicketIds : t \in ids})
    IN  [i \in DOMAIN found |->
            [id           |-> found[i],
             price        |-> tickets[found[i]].price,
             ticketTypeId |-> tickets[found[i]].ticketTypeId,
             status       |-> tickets[found[i]].status,
             purchaseId   |-> tickets[found[i]].purchaseId]]

\* A reducer that returns the price instead of adding it to the sum.
TotalPriceLastOnly(records) ==
    IF records = << >> THEN 0 ELSE records[Len(records)].price

\* ticketRecords.map(r => Number(r.price)).reduce((sum, p) => sum + p, 0)
RECURSIVE TotalPrice(_)
TotalPrice(records) ==
    IF records = << >> THEN 0
    ELSE TotalPrice(SubSeq(records, 1, Len(records) - 1))
            + records[Len(records)].price

\* One step of the quantitiesByType reducer:
\*   (accumulator, type) => ({ [type]: (accumulator[type] || 0) + 1 })
\* The returned object has the single key `type`.
QuantityStep(accumulator, type) ==
    type :> ((IF type \in DOMAIN accumulator THEN accumulator[type] ELSE 0) + 1)

\* ticketRecords.map(r => r.ticketTypeId).reduce(QuantityStep, {})
RECURSIVE QuantitiesByType(_)
QuantitiesByType(records) ==
    IF records = << >> THEN << >>
    ELSE QuantityStep(QuantitiesByType(SubSeq(records, 1, Len(records) - 1)),
                      records[Len(records)].ticketTypeId)

GetTickets(ids) ==
    LET ticketRecords == SelectTickets(ids)
    IN  [totalPrice       |-> TotalPrice(ticketRecords),
         tickets          |-> ticketRecords,
         quantitiesByType |-> QuantitiesByType(ticketRecords)]

(* --------------------------- postPreference --------------------------- *)

\* postPreference, line 129, with both sides divided by 1000 (the model's
\* instants are seconds, the code's are milliseconds):
\*   TOMORROW = Date.now() + 60 * 60 * 60 * 24 * 1000
Tomorrow(now) == now + 60 * 60 * 60 * 24

\* quantitiesByType[ticket.ticketTypeId]: undefined (Null) for a missing key.
QuantityOf(quantitiesByType, type) ==
    IF type \in DOMAIN quantitiesByType THEN quantitiesByType[type] ELSE Null

\* titles[quantity], lines 139-143 and 146.
TitleOf(quantity) ==
    CASE quantity = 1 -> "Entrada"
      [] quantity = 2 -> "Par de Entradas"
      [] quantity = 3 -> "Trio de Entradas"
      [] OTHER -> "undefined"

\* process.env.USE_FAKE_PAYMENTS ? 2 : Number(ticket.price)
UnitPrice(ticket, useFakePayments) ==
    IF useFakePayments THEN 2 ELSE ticket.price

\* items, lines 137-153: tickets.map(...), one line item per ticket record.
PreferenceItems(records, quantitiesByType, useFakePayments) ==
    [i \in DOMAIN records |->
        LET quantity == QuantityOf(quantitiesByType, records[i].ticketTypeId)
        IN  [id         |-> quantity,
             title      |-> TitleOf(quantity),
             quantity   |-> quantity,
             unit_price |-> UnitPrice(records[i], useFakePayments),
             type       |-> records[i].ticketTypeId]]

\* preferenceConfiguration, lines 136-177: the fields that depend on the
\* request.  `type` on a line item is not sent: it records which ticket type
\* the line was built from.  Both expiration dates are read at one instant.
PreferenceConfiguration(records, quantitiesByType, useFakePayments, now) ==
    [items                |-> PreferenceItems(records, quantitiesByType,
                                              useFakePayments),
     external_reference   |-> [i \in DOMAIN records |-> records[i].id],
     expiration_date_from |-> now,
     expiration_date_to   |-> Tomorrow(now)]

(* -------------------------------- Init -------------------------------- *)

\* The local `purchase` of add() before super.add has answered.
NoPurchase ==
    [id |-> Null, dateCreated |-> Null, status |-> "none",
     amountBilled |-> 0, externalId |-> Null]

NoLocal ==
    [ids              |-> {},
     totalPrice       |-> 0,
     tickets          |-> << >>,
     quantitiesByType |-> << >>,
     calls            |-> << >>,
     preference       |-> Null,
     dateCreated      |-> Null,
     purchase         |-> NoPurchase]

NoCall == [op |-> "none", id |-> Null, before |-> "absent", result |-> "none"]

Init ==
    /\ tickets = [t \in TicketIds |->
                    [price        |-> SeedPrice(t),
                     ticketTypeId |-> SeedType(t),
                     status       |-> "available",
                     purchaseId   |-> Null]]
    /\ purchases = << >>
    /\ nextPurchaseId = 1
    /\ gateway = 0
    /\ clock = 1
    /\ env = [USE_FAKE_PAYMENTS |-> FALSE]
    /\ pc = [r \in Requests |-> "start"]
    /\ local = [r \in Requests |-> NoLocal]
    /\ outcome = [r \in Requests |-> "pending"]
    /\ lastCall = NoCall

(* -------------------------------- add --------------------------------- *)

\* A postPreference call that is not awaited: add() goes straight on to the
\* insert while the gateway call is still in flight.
AddGetTicketsNoAwait(r, ids) ==
    /\ pc[r] = "start"
    /\ LET got == GetTickets(ids)
           preferenceConfiguration ==
               PreferenceConfiguration(got.tickets, got.quantitiesByType,
                                       env.USE_FAKE_PAYMENTS, clock)
       IN  local' = [local EXCEPT ![r] =
                        [@ EXCEPT !.ids = ids,
                                  !.totalPrice = got.totalPrice,
                                  !.tickets = got.tickets,
                                  !.quantitiesByType = got.quantitiesByType,
                                  !.dateCreated = clock,
                                  !.calls = Append(@, preferenceConfiguration)]]
    /\ pc' = [pc EXCEPT ![r] = "superAdd"]
    /\ UNCHANGED <<tickets, purchases, nextPurchaseId, gateway, clock, env, outcome, lastCall>>

\* add(), lines 18-26, and postPreference, lines 129-181: the request arrives
\* with its ticket relationships, the lookup of getTickets runs against the
\* Tickets table, and add() runs on to its next await: postPreference builds
\* the preference and passes it to MercadoPago.preferences.create.
AddGetTickets(r, ids) ==
    /\ pc[r] = "start"
    /\ LET got == GetTickets(ids)
           preferenceConfiguration ==
               PreferenceConfiguration(got.tickets, got.quantitiesByType,
                                       env.USE_FAKE_PAYMENTS, clock)
       IN  local' = [local EXCEPT ![r] =
                        [@ EXCEPT !.ids = ids,
                                  !.totalPrice = got.totalPrice,
                                  !.tickets = got.tickets,
                                  !.quantitiesByType = got.quantitiesByType,
                                  !.calls = Append(@, preferenceConfiguration)]]
    /\ pc' = [pc EXCEPT ![r] = "postPreference"]
    /\ UNCHANGED <<tickets, purchases, nextPurchaseId, gateway, clock, env, outcome, lastCall>>

\* postPreference, lines 179-183: the gateway creates the preference and
\* answers with its id, some time after the call.  add() then runs on to its
\* next await: it reads the clock for dateCreated (line 30) and sends the
\* insert.
AddPostPreference(r) ==
    /\ pc[r] = "postPreference"
    /\ gateway' = gateway + 1
    /\ local' = [local EXCEPT ![r].preference = gateway + 1,
                              ![r].dateCreated = clock]
    /\ pc' = [pc EXCEPT ![r] = "superAdd"]
    /\ UNCHANGED <<tickets, purchases, nextPurchaseId, clock, env, outcome, lastCall>>

\* A rejection that is caught and ignored: add() goes on to the insert with
\* no preference.
AddPostPreferenceFailsSwallowed(r) ==
    /\ pc[r] = "postPreference"
    /\ pc' = [pc EXCEPT ![r] = "superAdd"]
    /\ UNCHANGED <<tickets, purchases, nextPurchaseId, gateway, clock, env, local, outcome, lastCall>>

\* A rejection that is answered by sending the same preference again.
AddPostPreferenceFailsRetried(r) ==
    /\ pc[r] = "postPreference"
    /\ local' = [local EXCEPT ![r].calls = Append(@, @[Len(@)])]
    /\ UNCHANGED <<tickets, purchases, nextPurchaseId, gateway, clock, env, pc, outcome, lastCall>>

\* MercadoPago.preferences.create rejects: the await at line 179 throws, and
\* nothing catches it in postPreference or in add.
AddPostPreferenceFails(r) ==
    /\ pc[r] = "postPreference"
    /\ pc' = [pc EXCEPT ![r] = "thrown"]
    /\ outcome' = [outcome EXCEPT ![r] = "GatewayError"]
    /\ UNCHANGED <<tickets, purchases, nextPurchaseId, gateway, clock, env, local, lastCall>>

\* An order created as already paid.
InitialStatusPaid == "paid"

\* add(), line 31: the status a new purchase is created with.
InitialStatus == "unpaid"

\* add(), lines 29-36: the purchase row is inserted and comes back with its id.
AddInsert(r) ==
    /\ pc[r] = "superAdd"
    /\ LET attributes == [dateCreated  |-> local[r].dateCreated,
                          status       |-> InitialStatus,
                          amountBilled |-> local[r].totalPrice,
                          externalId   |-> local[r].preference]
       IN  /\ purchases' = purchases @@ (nextPurchaseId :> attributes)
           /\ local' = [local EXCEPT ![r].purchase =
                           [id           |-> nextPurchaseId,
                            dateCreated  |-> attributes.dateCreated,
                            status       |-> attributes.status,
                            amountBilled |-> attributes.amountBilled,
                            externalId   |-> attributes.externalId]]
    /\ nextPurchaseId' = nextPurchaseId + 1
    /\ pc' = [pc EXCEPT ![r] = "bindTicketsToPurchase"]
    /\ UNCHANGED <<tickets, gateway, clock, env, outcome, lastCall>>

\* The insert of line 36 is rejected by storage: the await throws.
AddInsertFails(r) ==
    /\ pc[r] = "superAdd"
    /\ pc' = [pc EXCEPT ![r] = "thrown"]
    /\ outcome' = [outcome EXCEPT ![r] = "StorageError"]
    /\ UNCHANGED <<tickets, purchases, nextPurchaseId, gateway, clock, env, local, lastCall>>

\* bindTicketsToPurchase, lines 190-195: an unconditional update of every row
\* whose id is among the records read by getTickets.
BoundTickets(records, purchaseId) ==
    [t \in TicketIds |->
        IF \E i \in DOMAIN records : records[i].id = t
        THEN [tickets[t] EXCEPT !.purchaseId = purchaseId, !.status = "booked"]
        ELSE tickets[t]]

\* add(), lines 39-41: the tickets are bound and add() returns the purchase.
AddBind(r) ==
    /\ pc[r] = "bindTicketsToPurchase"
    /\ tickets' = BoundTickets(local[r].tickets, local[r].purchase.id)
    /\ pc' = [pc EXCEPT ![r] = "returned"]
    /\ outcome' = [outcome EXCEPT ![r] = "returned"]
    /\ UNCHANGED <<purchases, nextPurchaseId, gateway, clock, env, local, lastCall>>

\* The update of line 190 is rejected by storage: the await at line 39 throws.
AddBindFails(r) ==
    /\ pc[r] = "bindTicketsToPurchase"
    /\ pc' = [pc EXCEPT ![r] = "thrown"]
    /\ outcome' = [outcome EXCEPT ![r] = "StorageError"]
    /\ UNCHANGED <<tickets, purchases, nextPurchaseId, gateway, clock, env, local, lastCall>>

(* ------------------------- the other operations ----------------------- *)

\* What a where({ id }) on Purchases matches, as seen by a caller.
StatusOf(id) == IF id \in DOMAIN purchases THEN purchases[id].status ELSE "absent"

\* An update that flips the status instead of setting it.
PaidRowsToggle(rows, id) ==
    [p \in DOMAIN rows |->
        IF p = id
        THEN [rows[p] EXCEPT !.status = IF @ = "paid" THEN "unpaid" ELSE "paid"]
        ELSE rows[p]]

\* knex("Purchases").where({ id }).update({ status: "paid" })
PaidRows(rows, id) ==
    [p \in DOMAIN rows |->
        IF p = id THEN [rows[p] EXCEPT !.status = "paid"] ELSE rows[p]]

MarkAsPaid(id) ==
    /\ purchases' = PaidRows(purchases, id)
    /\ lastCall' = [op |-> "markAsPaid", id |-> id,
                    before |-> StatusOf(id), result |-> "returned"]
    /\ UNCHANGED <<tickets, nextPurchaseId, gateway, clock, env, pc, local, outcome>>

\* asResource reads purchaseObject.id; .first() gives undefined when no row
\* matches, and reading a property of undefined throws a TypeError.
AsResource(id) == IF id \in DOMAIN purchases THEN "returned" ELSE "TypeError"

GetById(id) ==
    /\ lastCall' = [op |-> "getById", id |-> id,
                    before |-> StatusOf(id), result |-> AsResource(id)]
    /\ UNCHANGED <<tickets, purchases, nextPurchaseId, gateway, clock, env, pc, local, outcome>>

\* A delete() that removes the row the way removeById does.
DeleteRemoves(id) ==
    /\ purchases' = [p \in DOMAIN purchases \ {id} |-> purchases[p]]
    /\ lastCall' = [op |-> "delete", id |-> id,
                    before |-> StatusOf(id), result |-> "returned"]
    /\ UNCHANGED <<tickets, nextPurchaseId, gateway, clock, env, pc, local, outcome>>

\* delete() throws before touching storage.
Delete(id) ==
    /\ lastCall' = [op |-> "delete", id |-> id,
                    before |-> StatusOf(id), result |-> "AccessDenied"]
    /\ UNCHANGED <<tickets, purchases, nextPurchaseId, gateway, clock, env, pc, local, outcome>>

\* knex("Purchases").where({ id }).delete()
RemoveById(id) ==
    /\ purchases' = [p \in DOMAIN purchases \ {id} |-> purchases[p]]
    /\ lastCall' = [op |-> "removeById", id |-> id,
                    before |-> StatusOf(id), result |-> "returned"]
    /\ UNCHANGED <<tickets, nextPurchaseId, gateway, clock, env, pc, local, outcome>>

(* ------------------------------- Next --------------------------------- *)

Next ==
    \/ \E r \in Requests, ids \in Selections :
          AddGetTickets(r, ids)
    \/ \E r \in Requests : AddPostPreference(r)
    \/ \E r \in Requests : AddPostPreferenceFails(r)
    \/ \E r \in Requests : AddInsert(r)
    \/ \E r \in Requests : AddInsertFails(r)
    \/ \E r \in Requests : AddBind(r)
    \/ \E r \in Requests : AddBindFails(r)
    \/ \E id \in PurchaseIds : MarkAsPaid(id)
    \/ \E id \in PurchaseIds : GetById(id)
    \/ \E id \in PurchaseIds : Delete(id)
    \/ \E id \in PurchaseIds : RemoveById(id)

\* The requests of Spec all fall within one second of the clock, production
\* configuration, over the seeded Tickets table.
Spec == Init /\ [][Next]_vars

(* ----------------- building and sending the preference ---------------- *)

\* Ticket types and prices the Tickets table may hold.
TicketTypes == {1, 2}

TicketPrices == {100, 250}

\* Any Tickets table, either setting of USE_FAKE_PAYMENTS.
InitPreference ==
    /\ tickets \in [TicketIds -> [price        : TicketPrices,
                                  ticketTypeId : TicketTypes,
                                  status       : {"available"},
                                  purchaseId   : {Null}]]
    /\ purchases = << >>
    /\ nextPurchaseId = 1
    /\ gateway = 0
    /\ clock = 1
    /\ env \in [USE_FAKE_PAYMENTS : BOOLEAN]
    /\ pc = [r \in Requests |-> "start"]
    /\ local = [r \in Requests |-> NoLocal]
    /\ outcome = [r \in Requests |-> "pending"]
    /\ lastCall = NoCall

\* A second passes.
Tick ==
    /\ clock < MaxClock
    /\ clock' = clock + 1
    /\ UNCHANGED <<tickets, purchases, nextPurchaseId, gateway, env, pc, local, outcome, lastCall>>

\* add() up to the answer of the gateway, while time passes.
NextPreference ==
    \/ \E r \in Requests, ids \in Selections :
          AddGetTickets(r, ids)
    \/ \E r \in Requests : AddPostPreference(r)
    \/ \E r \in Requests : AddPostPreferenceFails(r)
    \/ Tick

SpecPreference == InitPreference /\ [][NextPreference]_vars

(* ------------------------------ claims -------------------------------- *)

Settled(r) == pc[r] \in {"returned", "thrown"}

\* The ids of the records getTickets gave request r.
FoundIds(r) == {local[r].tickets[i].id : i \in DOMAIN local[r].tickets}

\* Request r's lookup read ticket t with the given status.
Observed(r, t, status) ==
    \E i \in DOMAIN local[r].tickets :
        local[r].tickets[i].id = t /\ local[r].tickets[i].status = status

\* Sum of the prices in the Tickets table over a set of ticket ids.
RECURSIVE SumOfPrices(_)
SumOfPrices(S) ==
    IF S = {} THEN 0
    ELSE LET t == CHOOSE x \in S : TRUE
         IN  tickets[t].price + SumOfPrices(S \ {t})

\* C1: of two add() requests that both read a shared ticket as available
\* (they overlap in time), at most one returns, and when neither is cut short
\* by a gateway or storage fault the other one ends with Conflict.
C1_AtMostOneBooksSharedItem ==
    \A r1, r2 \in Requests :
        (r1 # r2 /\ \E t \in TicketIds :
                        Observed(r1, t, "available") /\ Observed(r2, t, "available"))
        => /\ ~(outcome[r1] = "returned" /\ outcome[r2] = "returned")
           /\ (Settled(r1) /\ outcome[r1] = "returned" /\ Settled(r2)
                  /\ outcome[r2] \notin {"GatewayError", "StorageError"})
              => outcome[r2] = "Conflict"

\* C2: a ticket's purchaseId is set once: no step changes a purchaseId that
\* is not null, and no step touches a ticket that is already booked.
C2_PurchaseIdSetOnce ==
    [][\A t \in TicketIds :
          (tickets[t].purchaseId # Null \/ tickets[t].status = "booked")
          => tickets'[t] = tickets[t]]_vars

\* C3: an add() whose selection holds a ticket that is already booked creates
\* no order and does not return; unless a gateway fault cuts it short first,
\* it ends with Conflict.
C3_BookedSelectionConflicts ==
    \A r \in Requests :
        (\E t \in TicketIds : Observed(r, t, "booked"))
        => /\ local[r].purchase.id = Null
           /\ outcome[r] \in {"pending", "Conflict", "GatewayError"}

C5_GatewayFailureIsCleanAbort ==
    [][\A r \in Requests :
          /\ (pc[r] = "postPreference" /\ pc'[r] # "postPreference"
                /\ gateway' = gateway)
             => /\ pc'[r] = "thrown"
                /\ outcome'[r] \notin {"pending", "returned"}
                /\ local'[r].purchase.id = Null
                /\ purchases' = purchases
                /\ tickets' = tickets
          /\ pc[r] = "thrown"
             => /\ pc'[r] = "thrown"
                /\ local'[r] = local[r]
                /\ outcome'[r] = outcome[r]]_vars

C5_Witness ==
    \E r \in Requests :
        /\ outcome[r] = "GatewayError"
        /\ pc[r] = "thrown"
        /\ local[r].ids = {1}
        /\ purchases = << >>
        /\ \A t \in TicketIds : tickets[t].status = "available"

\* C6: every purchase row in storage has all the tickets selected for it
\* booked and bound to it, unless the add() that inserted it has reported
\* InconsistentReservationError.
C6_InsertAndReservationAtomic ==
    \A r \in Requests :
        (local[r].purchase.id # Null /\ local[r].purchase.id \in DOMAIN purchases)
        => \/ \A t \in FoundIds(r) :
                 /\ tickets[t].status = "booked"
                 /\ tickets[t].purchaseId = local[r].purchase.id
           \/ outcome[r] = "InconsistentReservationError"

\* C7: an add() that fails at the insert, after the gateway created its
\* preference, ends with OrphanedPreferenceError.
C7_InsertFailureIsOrphanedPreference ==
    \A r \in Requests :
        (pc[r] = "thrown" /\ local[r].preference # Null
            /\ local[r].purchase.id = Null)
        => outcome[r] = "OrphanedPreferenceError"

\* C8: every markAsPaid(id) on an existing purchase returns without error and
\* leaves it paid, also when it was paid already, in which case the step
\* changes no purchase; and a second markAsPaid(id) right after would change
\* nothing.
C8_MarkAsPaidIdempotent ==
    [][\A id \in PurchaseIds :
          (MarkAsPaid(id) /\ id \in DOMAIN purchases)
          => /\ lastCall'.result = "returned"
             /\ id \in DOMAIN purchases'
             /\ purchases'[id].status = "paid"
             /\ (purchases[id].status = "paid" => purchases' = purchases)
             /\ PaidRows(purchases', id) = purchases']_vars

C8_Witness ==
    /\ lastCall.op = "markAsPaid"
    /\ lastCall.before = "paid"
    /\ lastCall.result = "returned"
    /\ StatusOf(lastCall.id) = "paid"

\* C9: under add, getById, markAsPaid and delete (every step that is not a
\* removeById), a purchase that exists keeps existing, a paid purchase stays
\* paid, and a purchase that appears is unpaid.
C9_StatusMonotonic ==
    [][(~ \E id \in PurchaseIds : RemoveById(id))
          => \A id \in PurchaseIds :
                /\ id \in DOMAIN purchases
                   => /\ id \in DOMAIN purchases'
                      /\ purchases[id].status = "paid"
                         => purchases'[id].status = "paid"
                /\ (id \notin DOMAIN purchases /\ id \in DOMAIN purchases')
                   => purchases'[id].status = "unpaid"]_vars

C9_Witness ==
    /\ lastCall.op = "delete"
    /\ lastCall.before = "paid"
    /\ StatusOf(lastCall.id) = "paid"
    /\ \E r \in Requests : pc[r] = "returned" /\ local[r].purchase.id # lastCall.id

\* C10: every delete() ends with AccessDenied and changes no purchase and no
\* ticket, whether the purchase is unpaid, paid or absent.
C10_DeleteAlwaysDenied ==
    [][\A id \in PurchaseIds :
          Delete(id)
          => /\ lastCall'.op = "delete"
             /\ lastCall'.result = "AccessDenied"
             /\ purchases' = purchases
             /\ tickets' = tickets]_vars

C10_Witness ==
    /\ lastCall.op = "delete"
    /\ lastCall.result = "AccessDenied"
    /\ lastCall.before = "unpaid"
    /\ StatusOf(lastCall.id) = "unpaid"

\* C11: no step removes an existing purchase or changes its amountBilled,
\* externalId or dateCreated, and a markAsPaid(id) step changes no purchase
\* other than id and no ticket.
C11_OrdersOnlyWrittenByMarkAsPaid ==
    [][/\ \A p \in DOMAIN purchases :
             /\ p \in DOMAIN purchases'
             /\ purchases'[p].amountBilled = purchases[p].amountBilled
             /\ purchases'[p].externalId = purchases[p].externalId
             /\ purchases'[p].dateCreated = purchases[p].dateCreated
       /\ \A id \in PurchaseIds :
             MarkAsPaid(id)
             => /\ tickets' = tickets
                /\ DOMAIN purchases' = DOMAIN purchases
                /\ \A p \in DOMAIN purchases \ {id} : purchases'[p] = purchases[p]]_vars

\* C12: every getById(id) changes no purchase and no ticket; it returns when
\* the purchase exists and ends with NotFound when it does not.
C12_GetByIdReadOnlyOrNotFound ==
    [][\A id \in PurchaseIds :
          GetById(id)
          => /\ purchases' = purchases
             /\ tickets' = tickets
             /\ lastCall'.result =
                   IF id \in DOMAIN purchases THEN "returned" ELSE "NotFound"]_vars

\* C13: an add() that asks for an id with no row in Tickets creates no order
\* and books no ticket; unless a gateway fault cuts it short first, it ends
\* with NotFound.
C13_MissingItemIsNotFound ==
    \A r \in Requests :
        (pc[r] # "start" /\ ~(local[r].ids \subseteq TicketIds))
        => /\ local[r].purchase.id = Null
           /\ outcome[r] \in {"pending", "NotFound", "GatewayError"}
           /\ \A t \in TicketIds :
                 tickets[t].purchaseId = Null
                 \/ tickets[t].purchaseId # local[r].purchase.id

\* Number of records of a ticket type.
CountOfType(records, type) ==
    Cardinality({i \in DOMAIN records : records[i].ticketTypeId = type})

\* Sum of the counts of a quantity-by-type map.
RECURSIVE SumOfQuantities(_, _)
SumOfQuantities(quantitiesByType, types) ==
    IF types = {} THEN 0
    ELSE LET ty == CHOOSE x \in types : TRUE
         IN  quantitiesByType[ty] + SumOfQuantities(quantitiesByType, types \ {ty})

\* C14: the quantity-by-type map getTickets computes counts, for each ticket
\* type, the selected tickets of that type (no entry for a type with none),
\* and its counts sum to the number of selected tickets.
C14_QuantitiesCountTheSelection ==
    \A r \in Requests :
        pc[r] # "start"
        => LET q == local[r].quantitiesByType
               records == local[r].tickets
           IN  /\ \A ty \in TicketTypes :
                     QuantityOf(q, ty) = CountOfType(records, ty)
               /\ SumOfQuantities(q, DOMAIN q) = Len(records)

\* What the gateway bills for a list of line items: quantity times unit_price,
\* summed over the lines.
RECURSIVE GatewayTotal(_)
GatewayTotal(items) ==
    IF items = << >> THEN 0
    ELSE GatewayTotal(SubSeq(items, 1, Len(items) - 1))
            + items[Len(items)].quantity * items[Len(items)].unit_price

\* C15: outside fake-payments mode, the preference add() sends holds exactly
\* one line item per ticket type among the selected tickets, with quantity the
\* number of selected tickets of that type and unit_price the price of a
\* selected ticket of that type; when the selected tickets all have one type
\* and one price (two tickets of price 100 and type 1: one line, quantity 2,
\* unit_price 100), the gateway's total is the totalPrice billed (200).
C15_OneLineItemPerCategory ==
    \A r \in Requests :
        (local[r].calls # << >> /\ ~env.USE_FAKE_PAYMENTS)
        => LET items == local[r].calls[1].items
               records == local[r].tickets
           IN  /\ \A i \in DOMAIN records :
                     Cardinality({j \in DOMAIN items :
                                    items[j].type = records[i].ticketTypeId}) = 1
               /\ \A j \in DOMAIN items :
                     /\ items[j].quantity = CountOfType(records, items[j].type)
                     /\ \E i \in DOMAIN records :
                           /\ records[i].ticketTypeId = items[j].type
                           /\ records[i].price = items[j].unit_price
               /\ (\A i, k \in DOMAIN records :
                      /\ records[i].ticketTypeId = records[k].ticketTypeId
                      /\ records[i].price = records[k].price)
                  => GatewayTotal(items) = local[r].totalPrice

\* C16: every booked ticket is bound to a purchase that exists.
C16_BookedItemHasItsOrder ==
    \A t \in TicketIds :
        tickets[t].status = "booked" => tickets[t].purchaseId \in DOMAIN purchases

\* C17: when no add() is in flight and none has failed, every purchase's
\* amountBilled is the sum of the prices of the tickets bound to it.
C17_AmountBilledMatchesBoundItems ==
    (\A r \in Requests : pc[r] \in {"start", "returned"})
    => \A p \in DOMAIN purchases :
          purchases[p].amountBilled
             = SumOfPrices({t \in TicketIds : tickets[t].purchaseId = p})

\* C18: the steps of one add() come in the order lookup, gateway call, insert,
\* ticket update: the gateway is called only in the step of the lookup, a
\* purchase row appears only in a step of a request whose gateway call has
\* answered with a preference, and a ticket is bound only by a request that
\* has inserted its purchase.
C18_GatewayCallBeforeLocalWrites ==
    [][/\ \A r \in Requests :
             /\ pc'[r] # pc[r]
                => <<pc[r], pc'[r]>> \in
                      {<<"start", "postPreference">>,
                       <<"postPreference", "superAdd">>,
                       <<"postPreference", "thrown">>,
                       <<"superAdd", "bindTicketsToPurchase">>,
                       <<"superAdd", "thrown">>,
                       <<"bindTicketsToPurchase", "returned">>,
                       <<"bindTicketsToPurchase", "thrown">>}
             /\ local'[r].calls # local[r].calls
                => /\ pc[r] = "start"
                   /\ local[r].purchase.id = Null
             /\ local'[r].preference # local[r].preference
                => /\ pc[r] = "postPreference"
                   /\ gateway' = gateway + 1
                   /\ local[r].purchase.id = Null
       /\ \A p \in DOMAIN purchases' \ DOMAIN purchases :
             \E r \in Requests :
                /\ pc[r] = "superAdd"
                /\ local[r].preference # Null
                /\ local[r].calls # << >>
                /\ local'[r].purchase.id = p
                /\ purchases'[p].externalId = local[r].preference
       /\ \A t \in TicketIds :
             tickets'[t] # tickets[t]
             => \E r \in Requests :
                   /\ pc[r] = "bindTicketsToPurchase"
                   /\ local[r].preference # Null
                   /\ local[r].purchase.id # Null
                   /\ tickets'[t].purchaseId = local[r].purchase.id]_vars

C18_Witness ==
    \E r \in Requests :
        /\ pc[r] = "returned"
        /\ local[r].preference # Null
        /\ Len(local[r].calls) = 1
        /\ local[r].purchase.id \in DOMAIN purchases
        /\ \E t \in TicketIds : tickets[t].purchaseId = local[r].purchase.id

\* C19: an add() calls the gateway exactly once from its lookup on, whether
\* the call succeeds or fails; a failed call ends add() with the gateway's
\* error, and the gateway has created no more preferences than it got calls.
C19_OneGatewayCallPerAdd ==
    /\ \A r \in Requests :
          /\ Len(local[r].calls) = (IF pc[r] = "start" THEN 0 ELSE 1)
          /\ outcome[r] = "GatewayError"
             => /\ pc[r] = "thrown"
                /\ local[r].preference = Null
    /\ gateway <= Cardinality({r \in Requests : local[r].calls # << >>})

C19_Witness ==
    \E r \in Requests :
        /\ outcome[r] = "GatewayError"
        /\ pc[r] = "thrown"
        /\ Len(local[r].calls) = 1
        /\ gateway = 0

\* C20: the preference expires 24 hours (24 * 60 * 60 seconds) after the
\* instant it is valid from.
C20_ExpiresAfter24Hours ==
    \A r \in Requests :
        \A i \in DOMAIN local[r].calls :
            local[r].calls[i].expiration_date_to
               = local[r].calls[i].expiration_date_from + 24 * 60 * 60

====
